---------------------------- MODULE Spec2Model ----------------------------
(***************************************************************************)
(* Model of the two serverless handlers of cloud-resume-challenge:         *)
(*   - the Counter Service   (src/backend/lambda_function.py, and its      *)
(*     behaviourally identical copy src/backend/lambda.function.py),       *)
(*   - the Report Generator  (src/analytics/analytics_lambda.py).          *)
(* The managed services (key-value store, query service, notification      *)
(* service) are the environment: each call is one atomic step that either  *)
(* returns or raises.                                                      *)
(***************************************************************************)
EXTENDS Integers, Sequences, FiniteSets, TLC

(***************************************************************************)
(* Bounds of the model.                                                    *)
(***************************************************************************)
NumInvocations == 3

VARIABLES
    \* ---- Counter Service ----
    table,          \* the items of table cloud-resume-visitor-counter
    event,          \* event[inv]: the event the host delivered to invocation inv
    pc,             \* pc[inv]: position of invocation inv in lambda_handler
    response,       \* response[inv]: the value update_item returned (local `response`)
    result,         \* result[inv]: what lambda_handler returned to the host
    storeCalls,     \* storeCalls[inv]: number of update_item calls invocation inv issued
    initialTable,   \* history: the table before any invocation
    overlapped,     \* history: some invocation started while another was in flight
    storeRaised     \* history: the invocations whose update_item call raised

counterVars == <<table, event, pc, response, result, storeCalls,
                 initialTable, overlapped, storeRaised>>

\* ---- Report Generator ----
VARIABLES
    environ,        \* os.environ['FILTERED_IPS']
    FILTERED_IPS,   \* the module-level list, set when the module is loaded
    rpc,            \* position of the invocation in lambda_handler / execute_query
    q,              \* which of the five execute_query calls is running (1..5)
    ip_filter,      \* local ip_filter of lambda_handler
    i,              \* loop variable of execute_query
    status,         \* local status of execute_query
    results,        \* the values of the results dict built so far, in order
    reportResult,   \* what lambda_handler returned to the host
    published,      \* the messages the notification service accepted
    submitted,      \* history: the queries the query service accepted, in order
    finished,       \* history: per finished execute_query, its last status and fetches
    statusChecks,   \* history: get_query_execution calls for the current execution
    fetches,        \* history: get_query_results calls for the current execution
    raisedAt,       \* history: the service call that raised
    footer          \* the footer line (used by the denylist specification)

reportVars == <<environ, FILTERED_IPS, rpc, q, ip_filter, i, status, results,
                reportResult, published, submitted, finished, statusChecks,
                fetches, raisedAt, footer>>

vars == <<counterVars, reportVars>>

Invocations == 1 .. NumInvocations

(***************************************************************************)
(* Python values.                                                          *)
(***************************************************************************)
None == "None"
EmptyDict == [k \in {} |-> k]
\* No value bound yet (a local before its assignment, a call that has not returned).
Unset == EmptyDict

\* dict.get(key, default)
Get(d, key, default) == IF key \in DOMAIN d THEN d[key] ELSE default

\* str(n) for a natural number: its decimal digits
DigitChar(d) == CASE d = 0 -> "0" [] d = 1 -> "1" [] d = 2 -> "2" [] d = 3 -> "3"
                  [] d = 4 -> "4" [] d = 5 -> "5" [] d = 6 -> "6" [] d = 7 -> "7"
                  [] d = 8 -> "8" [] d = 9 -> "9"

RECURSIVE Str(_)
Str(n) == IF n < 10 THEN <<DigitChar(n)>>
          ELSE Str(n \div 10) \o <<DigitChar(n % 10)>>

(***************************************************************************)
(* Counter Service: src/backend/lambda_function.py                         *)
(***************************************************************************)
Methods == {"OPTIONS", "POST", "GET"}

\* The events the host may deliver: one with no requestContext (and so no
\* method field), or one with a method.
Events ==
    {EmptyDict} \cup {[requestContext |-> [http |-> [method |-> m]]] : m \in Methods}

get_cors_headers ==
    [AllowOrigin |-> "*", AllowHeaders |-> "Content-Type",
     AllowMethods |-> "POST, OPTIONS"]

\* A variant that looks for the method at the top level of the event.
IsPreflightTopLevel(ev) == Get(ev, "method", None) = "OPTIONS"

\* event.get('requestContext', {}).get('http', {}).get('method') == 'OPTIONS'
IsPreflight(ev) ==
    Get(Get(Get(ev, "requestContext", EmptyDict), "http", EmptyDict),
        "method", None) = "OPTIONS"

\* json.dumps({'count': count})
JsonDumpsCount(count) == <<"{", "\"count\"", ":", " ">> \o Str(count) \o <<"}">>

\* UpdateExpression 'SET #count = if_not_exists(#count, :start) + :inc'
\* with :start = 0 and :inc = 1, evaluated by the store on the current item.
Key == [id |-> "visitor-count"]

HasItem(tbl) == \E it \in tbl : it.id = Key.id

IfNotExists(tbl, start) ==
    IF HasItem(tbl) THEN (CHOOSE it \in tbl : it.id = Key.id).count ELSE start

UpdateExpression(tbl) == IfNotExists(tbl, 0) + 1

\* The table after SET #count = new on the item with the key (created if absent).
SetCount(tbl, new) ==
    {it \in tbl : it.id # Key.id} \cup {[id |-> Key.id, count |-> new]}

\* A variant with ReturnValues='UPDATED_OLD'.
ReturnValuesUpdatedOld(old, new) == [Attributes |-> [count |-> old]]

\* ReturnValues='UPDATED_NEW': the attributes as they are after the update.
ReturnValues(old, new) == [Attributes |-> [count |-> new]]

InFlight(inv) == pc[inv] \in {"entry", "read", "updated"}

\* The host invokes lambda_handler(event, context).
Invoke(inv) ==
    /\ pc[inv] = "idle"
    /\ \E ev \in Events : event' = [event EXCEPT ![inv] = ev]
    /\ pc' = [pc EXCEPT ![inv] = "entry"]
    /\ overlapped' = (overlapped \/ \E j \in Invocations : InFlight(j))
    /\ UNCHANGED <<table, response, result, storeCalls, initialTable>>
    /\ UNCHANGED <<storeRaised, reportVars>>

\* The OPTIONS branch: return at once.
Preflight(inv) ==
    /\ pc[inv] = "entry"
    /\ IsPreflight(event[inv])
    /\ result' = [result EXCEPT ![inv] =
                    [statusCode |-> 200, headers |-> get_cors_headers, body |-> <<>>]]
    /\ pc' = [pc EXCEPT ![inv] = "done"]
    /\ UNCHANGED <<table, event, response, storeCalls, initialTable,
                   overlapped>>
    /\ UNCHANGED <<storeRaised, reportVars>>

\* A variant that reads the item and writes it back in two store calls.
UpdateItemReadThenWrite(inv) ==
    \/ /\ pc[inv] = "entry"
       /\ ~IsPreflight(event[inv])
       /\ response' = [response EXCEPT ![inv] = ReturnValues(0, IfNotExists(table, 0))]
       /\ pc' = [pc EXCEPT ![inv] = "read"]
       /\ storeCalls' = [storeCalls EXCEPT ![inv] = @ + 1]
       /\ UNCHANGED <<table, event, result, initialTable, overlapped>>
       /\ UNCHANGED <<storeRaised, reportVars>>
    \/ /\ pc[inv] = "read"
       /\ table' = SetCount(table, response[inv].Attributes.count + 1)
       /\ response' = [response EXCEPT ![inv] =
                         ReturnValues(0, response[inv].Attributes.count + 1)]
       /\ pc' = [pc EXCEPT ![inv] = "updated"]
       /\ UNCHANGED <<event, result, storeCalls, initialTable, overlapped>>
       /\ UNCHANGED <<storeRaised, reportVars>>

\* table.update_item(...) returns: the store applies the update expression to
\* the item and answers in one atomic step.
UpdateItem(inv) ==
    /\ pc[inv] = "entry"
    /\ ~IsPreflight(event[inv])
    /\ LET new == UpdateExpression(table)
       IN /\ table' = SetCount(table, new)
          /\ response' = [response EXCEPT ![inv] =
                            ReturnValues(IfNotExists(table, 0), new)]
    /\ storeCalls' = [storeCalls EXCEPT ![inv] = @ + 1]
    /\ pc' = [pc EXCEPT ![inv] = "updated"]
    /\ UNCHANGED <<event, result, initialTable, overlapped>>
    /\ UNCHANGED <<storeRaised, reportVars>>

\* A variant that answers a store error with a fallback count.
UpdateItemRaisesFallback(inv) ==
    /\ pc[inv] = "entry"
    /\ ~IsPreflight(event[inv])
    /\ storeCalls' = [storeCalls EXCEPT ![inv] = @ + 1]
    /\ storeRaised' = storeRaised \cup {inv}
    /\ result' = [result EXCEPT ![inv] =
                    [statusCode |-> 200, headers |-> get_cors_headers,
                     body |-> JsonDumpsCount(0)]]
    /\ pc' = [pc EXCEPT ![inv] = "done"]
    /\ UNCHANGED <<table, event, response, initialTable, overlapped>>
    /\ UNCHANGED reportVars

\* table.update_item(...) raises: the store rejected the request and applied
\* nothing; there is no try/except, so the exception leaves lambda_handler.
UpdateItemRaises(inv) ==
    /\ pc[inv] = "entry"
    /\ ~IsPreflight(event[inv])
    /\ storeCalls' = [storeCalls EXCEPT ![inv] = @ + 1]
    /\ storeRaised' = storeRaised \cup {inv}
    /\ pc' = [pc EXCEPT ![inv] = "raised"]
    /\ UNCHANGED <<table, event, response, result, initialTable, overlapped>>
    /\ UNCHANGED reportVars

\* count = int(response['Attributes']['count']) and the return statement.
Return(inv) ==
    /\ pc[inv] = "updated"
    /\ LET count == response[inv].Attributes.count
       IN result' = [result EXCEPT ![inv] =
                       [statusCode |-> 200, headers |-> get_cors_headers,
                        body |-> JsonDumpsCount(count)]]
    /\ pc' = [pc EXCEPT ![inv] = "done"]
    /\ UNCHANGED <<table, event, response, storeCalls, initialTable, overlapped>>
    /\ UNCHANGED <<storeRaised, reportVars>>

(***************************************************************************)
(* Python strings are sequences of tokens (characters or fixed pieces of   *)
(* text), so that concatenation, join, split and strip are computed.       *)
(***************************************************************************)
\* sep.join(strs): the pieces from the k-th on, sep between them
RECURSIVE JoinFrom(_, _, _)
JoinFrom(strs, sep, k) ==
    IF k > Len(strs) THEN <<>>
    ELSE IF k = Len(strs) THEN strs[k]
    ELSE strs[k] \o sep \o JoinFrom(strs, sep, k + 1)

\* (the list is bound to a value first, so that it is evaluated once)
Join(strs, sep) == CHOOSE joined \in {JoinFrom(list, sep, 1) : list \in {strs}} : TRUE

\* s.split(sep) for a one-character separator: always at least one piece
RECURSIVE Split(_, _)
Split(s, sep) ==
    IF \A k \in 1 .. Len(s) : s[k] # sep THEN <<s>>
    ELSE LET k == CHOOSE k \in 1 .. Len(s) :
                      s[k] = sep /\ \A j \in 1 .. (k - 1) : s[j] # sep
         IN <<SubSeq(s, 1, k - 1)>> \o Split(SubSeq(s, k + 1, Len(s)), sep)

\* s.strip()
RECURSIVE LStrip(_)
LStrip(s) == IF s # <<>> /\ Head(s) = " " THEN LStrip(Tail(s)) ELSE s

RECURSIVE RStrip(_)
RStrip(s) == IF s # <<>> /\ s[Len(s)] = " " THEN RStrip(SubSeq(s, 1, Len(s) - 1)) ELSE s

Strip(s) == RStrip(LStrip(s))

(***************************************************************************)
(* Report Generator: src/analytics/analytics_lambda.py                     *)
(***************************************************************************)
\* for i in range(30)
MaxAttempts == 30

DATABASE == "cloudfront_logs_db"
TABLE == "cloudfront_logs"
SNS_TOPIC_ARN == "SNS_TOPIC_ARN"

\* The five execute_query calls of lambda_handler, in evaluation order.
QueryNames == <<"overview", "yesterday", "top_pages", "geo_distribution", "top_visitors">>

NumQueries == Len(QueryNames)

\* build_ip_filter(): "(" + ", ".join([f"'{ip.strip()}'" for ip in FILTERED_IPS]) + ")"
build_ip_filter(ips) ==
    <<"(">>
    \o Join([k \in 1 .. Len(ips) |-> <<"'">> \o Strip(ips[k]) \o <<"'">>], <<",", " ">>)
    \o <<")">>

\* get_overview_query ... get_top_visitors_query: the query text is kept as the
\* parts that vary, the table and the NOT IN clause.
get_query(name, filter) == [select |-> name, from |-> TABLE, c_ip_not_in |-> filter]

(* The states get_query_execution may report. *)
States == {"QUEUED", "RUNNING", "SUCCEEDED", "FAILED", "CANCELLED"}

\* A variant that does not break on CANCELLED.
IsTerminalNoCancelled(st) == st \in {"SUCCEEDED", "FAILED"}

\* if status in ['SUCCEEDED', 'FAILED', 'CANCELLED']: break
IsTerminal(st) == st \in {"SUCCEEDED", "FAILED", "CANCELLED"}

\* A variant with one iteration too many.
HasNextOffByOne(n) == n < MaxAttempts

\* for i in range(30): whether the loop has another iteration after iteration n
HasNext(n) == n + 1 < MaxAttempts

(* Result sets of get_query_results: rows of cells; a cell with no value    *)
(* (SQL NULL) has no VarCharValue.                                          *)
Cell(v) == [VarCharValue |-> v]
NullCell == EmptyDict
Row(cells) == [Data |-> cells]

MaxDataRows == 1

\* overview and yesterday are aggregates without GROUP BY: COUNT is never NULL.
OverviewRows ==
    {<<Row(<<Cell("total_visits"), Cell("unique_visitors"), Cell("days_tracked")>>)>>,
     <<Row(<<Cell("total_visits"), Cell("unique_visitors"), Cell("days_tracked")>>),
       Row(<<Cell("42"), Cell("10"), Cell("5")>>)>>}

YesterdayRows ==
    {<<Row(<<Cell("visits_yesterday"), Cell("unique_yesterday")>>)>>,
     <<Row(<<Cell("visits_yesterday"), Cell("unique_yesterday")>>),
       Row(<<Cell("3"), Cell("2")>>)>>}

\* Data rows of the grouped queries: with values, or with NULL key and count.
DataRows == {Row(<<Cell("key"), Cell("7")>>), Row(<<NullCell, NullCell>>)}

RECURSIVE SeqsUpTo(_, _)
SeqsUpTo(S, n) ==
    IF n = 0 THEN {<<>>}
    ELSE LET shorter == SeqsUpTo(S, n - 1)
         IN shorter \cup {Append(s, x) : s \in shorter, x \in S}

GroupedRows ==
    {<<Row(<<Cell("key_column"), Cell("count_column")>>)>> \o rows :
        rows \in SeqsUpTo(DataRows, MaxDataRows)}

ResultSets(n) ==
    CASE n = 1 -> OverviewRows
      [] n = 2 -> YesterdayRows
      [] OTHER -> GroupedRows

(* The formatters.  Python index k is TLA+ index k + 1. *)
format_overview(data) ==
    IF Len(data) > 1
    THEN <<"Total Visits: ", data[2].Data[1].VarCharValue,
           "\nUnique Visitors: ", data[2].Data[2].VarCharValue,
           "\nDays Tracked: ", data[2].Data[3].VarCharValue>>
    ELSE <<"No traffic data available.">>

format_yesterday(data) ==
    IF Len(data) > 1
    THEN <<"Visits: ", data[2].Data[1].VarCharValue,
           "\nUnique Visitors: ", data[2].Data[2].VarCharValue>>
    ELSE <<"No traffic yesterday.">>

\* The loop shared by format_top_pages, format_geo_distribution, format_top_visitors.
format_lines(data, unit) ==
    Join([k \in 1 .. (Len(data) - 1) |->
            <<Get(data[k + 1].Data[1], "VarCharValue", "N/A"), ": ",
              Get(data[k + 1].Data[2], "VarCharValue", "0"), unit>>],
         <<"\n">>)

format_top_pages(data) ==
    IF Len(data) > 1 THEN format_lines(data, " visits") ELSE <<"No page data.">>

format_geo_distribution(data) ==
    IF Len(data) > 1 THEN format_lines(data, " requests") ELSE <<"No geographic data.">>

format_top_visitors(data) ==
    IF Len(data) > 1 THEN format_lines(data, " visits") ELSE <<"No visitor data.">>

\* "=" * 50
Rule == "=================================================="

\* f"\nFiltered IPs: {len(FILTERED_IPS)} IP(s) excluded from stats"
format_footer(ips) ==
    <<"\nFiltered IPs: ">> \o Str(Len(ips)) \o <<" IP(s) excluded from stats">>

SectionTitles == <<"ALL-TIME OVERVIEW", "YESTERDAY (", "TOP PAGES (All Time)",
                   "GEOGRAPHIC DISTRIBUTION", "TOP VISITORS">>

\* A variant whose TOP VISITORS section is rendered from the geography results.
format_email_report_miswired(res, ips) ==
    Join(<< <<"Website Analytics Report">>,
            <<"Generated: ", "now", " UTC">>,
            <<"\n", Rule>>, <<SectionTitles[1]>>, <<Rule>>, format_overview(res[1]),
            <<"\n", Rule>>, <<SectionTitles[2], "yesterday", ")">>, <<Rule>>,
                format_yesterday(res[2]),
            <<"\n", Rule>>, <<SectionTitles[3]>>, <<Rule>>, format_top_pages(res[3]),
            <<"\n", Rule>>, <<SectionTitles[4]>>, <<Rule>>,
                format_geo_distribution(res[4]),
            <<"\n", Rule>>, <<SectionTitles[5]>>, <<Rule>>, format_top_visitors(res[4]),
            format_footer(ips) >>,
         <<"\n">>)

\* format_email_report(yesterday, results): "\n".join(sections)
format_email_report(res, ips) ==
    Join(<< <<"Website Analytics Report">>,
            <<"Generated: ", "now", " UTC">>,
            <<"\n", Rule>>, <<SectionTitles[1]>>, <<Rule>>, format_overview(res[1]),
            <<"\n", Rule>>, <<SectionTitles[2], "yesterday", ")">>, <<Rule>>,
                format_yesterday(res[2]),
            <<"\n", Rule>>, <<SectionTitles[3]>>, <<Rule>>, format_top_pages(res[3]),
            <<"\n", Rule>>, <<SectionTitles[4]>>, <<Rule>>,
                format_geo_distribution(res[4]),
            <<"\n", Rule>>, <<SectionTitles[5]>>, <<Rule>>, format_top_visitors(res[5]),
            format_footer(ips) >>,
         <<"\n">>)

(* A variant that catches the exception and answers with an error status. *)
UnwindCaught(call) ==
    /\ rpc' = "raised"
    /\ raisedAt' = [query |-> q, call |-> call]
    /\ q' = 0
    /\ i' = 0
    /\ ip_filter' = Unset
    /\ status' = None
    /\ results' = <<>>
    /\ reportResult' = [statusCode |-> 500, body |-> "Analytics report failed"]
    /\ UNCHANGED <<environ, FILTERED_IPS, published, submitted, finished, footer>>
    /\ UNCHANGED counterVars

(* An exception leaves lambda_handler: its locals are gone. *)
Unwind(call) ==
    /\ rpc' = "raised"
    /\ raisedAt' = [query |-> q, call |-> call]
    /\ q' = 0
    /\ i' = 0
    /\ ip_filter' = Unset
    /\ status' = None
    /\ results' = <<>>
    /\ UNCHANGED <<environ, FILTERED_IPS, reportResult, published, submitted,
                   finished, footer>>
    /\ UNCHANGED counterVars

\* The host invokes lambda_handler: lines 31-34.
ReportInvoke ==
    /\ rpc = "idle"
    /\ ip_filter' = build_ip_filter(FILTERED_IPS)
    /\ q' = 1
    /\ rpc' = "submit"
    /\ UNCHANGED <<environ, FILTERED_IPS, i, status, results, reportResult,
                   published, submitted, finished, statusChecks, fetches,
                   raisedAt, footer>>
    /\ UNCHANGED counterVars

\* athena_client.start_query_execution(...) returns an execution id.
StartQueryExecution ==
    /\ rpc = "submit"
    /\ submitted' = Append(submitted,
                      [QueryString |-> get_query(QueryNames[q], ip_filter),
                       Database |-> DATABASE])
    /\ i' = 0
    /\ status' = None
    /\ statusChecks' = 0
    /\ fetches' = 0
    /\ rpc' = "poll"
    /\ UNCHANGED <<environ, FILTERED_IPS, q, ip_filter, results, reportResult,
                   published, finished, raisedAt, footer>>
    /\ UNCHANGED counterVars

StartQueryExecutionRaises ==
    /\ rpc = "submit"
    /\ Unwind("start_query_execution")
    /\ UNCHANGED <<statusChecks, fetches>>

\* One iteration of the loop: get_query_execution returns a state; break on a
\* terminal state, else sleep and go to the next iteration, if there is one.
GetQueryExecution ==
    /\ rpc = "poll"
    /\ \E st \in States :
        /\ status' = st
        /\ IF IsTerminal(st)
           THEN /\ rpc' = "after_loop"
                /\ i' = i
           ELSE IF HasNext(i)
           THEN /\ rpc' = "poll"
                /\ i' = i + 1
           ELSE /\ rpc' = "after_loop"
                /\ i' = i
    /\ statusChecks' = statusChecks + 1
    /\ UNCHANGED <<environ, FILTERED_IPS, q, ip_filter, results, reportResult,
                   published, submitted, finished, fetches, raisedAt, footer>>
    /\ UNCHANGED counterVars

GetQueryExecutionRaises ==
    /\ rpc = "poll"
    /\ statusChecks' = statusChecks + 1
    /\ Unwind("get_query_execution")
    /\ UNCHANGED fetches

\* if status == 'SUCCEEDED'
ShouldFetch(st) == st = "SUCCEEDED"

\* execute_query returns rows to lambda_handler, which goes on to the next
\* execute_query call or, after the fifth, to the report.
ReturnRows(rows, nfetches) ==
    /\ results' = Append(results, rows)
    /\ finished' = Append(finished, [status |-> status, fetches |-> nfetches])
    /\ i' = 0
    /\ status' = None
    /\ statusChecks' = 0
    /\ fetches' = 0
    /\ IF q < NumQueries
       THEN /\ q' = q + 1
            /\ rpc' = "submit"
       ELSE /\ q' = q
            /\ rpc' = "publish"
    /\ UNCHANGED <<environ, FILTERED_IPS, ip_filter, reportResult, published,
                   submitted, raisedAt, footer>>
    /\ UNCHANGED counterVars

\* athena_client.get_query_results(...) returns; return results['ResultSet']['Rows']
GetQueryResults ==
    /\ rpc = "after_loop"
    /\ ShouldFetch(status)
    /\ \E rows \in ResultSets(q) : ReturnRows(rows, fetches + 1)

GetQueryResultsRaises ==
    /\ rpc = "after_loop"
    /\ ShouldFetch(status)
    /\ fetches' = fetches + 1
    /\ Unwind("get_query_results")
    /\ UNCHANGED statusChecks

\* return []
ReturnEmpty ==
    /\ rpc = "after_loop"
    /\ ~ShouldFetch(status)
    /\ ReturnRows(<<>>, fetches)

\* A variant that publishes the report twice.
PublishTwice ==
    /\ rpc = "publish"
    /\ LET msg == [TopicArn |-> SNS_TOPIC_ARN,
                   Subject |-> <<"Website Analytics - ", "today">>,
                   Message |-> format_email_report(results, FILTERED_IPS)]
       IN published' = published \o <<msg, msg>>
    /\ rpc' = "published"
    /\ UNCHANGED <<environ, FILTERED_IPS, q, ip_filter, i, status, results,
                   reportResult, submitted, finished, statusChecks, fetches,
                   raisedAt, footer>>
    /\ UNCHANGED counterVars

\* email_body = format_email_report(yesterday, results); sns_client.publish(...) returns
Publish ==
    /\ rpc = "publish"
    /\ published' = Append(published,
                      [TopicArn |-> SNS_TOPIC_ARN,
                       Subject |-> <<"Website Analytics - ", "today">>,
                       Message |-> format_email_report(results, FILTERED_IPS)])
    /\ rpc' = "published"
    /\ UNCHANGED <<environ, FILTERED_IPS, q, ip_filter, i, status, results,
                   reportResult, submitted, finished, statusChecks, fetches,
                   raisedAt, footer>>
    /\ UNCHANGED counterVars

PublishRaises ==
    /\ rpc = "publish"
    /\ Unwind("publish")
    /\ UNCHANGED <<statusChecks, fetches>>

\* return {'statusCode': 200, 'body': 'Analytics report sent successfully'}
ReportReturn ==
    /\ rpc = "published"
    /\ reportResult' = [statusCode |-> 200, body |-> "Analytics report sent successfully"]
    /\ rpc' = "done"
    /\ UNCHANGED <<environ, FILTERED_IPS, q, ip_filter, i, status, results,
                   published, submitted, finished, statusChecks, fetches,
                   raisedAt, footer>>
    /\ UNCHANGED counterVars

(***************************************************************************)
(* The denylist functions on their own: ip_filter = build_ip_filter() and  *)
(* the footer line of format_email_report.                                 *)
(***************************************************************************)
BuildIpFilter ==
    /\ rpc = "idle"
    /\ ip_filter' = build_ip_filter(FILTERED_IPS)
    /\ rpc' = "filter_built"
    /\ UNCHANGED <<environ, FILTERED_IPS, q, i, status, results, reportResult,
                   published, submitted, finished, statusChecks, fetches,
                   raisedAt, footer>>
    /\ UNCHANGED counterVars

FormatFooter ==
    /\ rpc = "filter_built"
    /\ footer' = format_footer(FILTERED_IPS)
    /\ rpc' = "footer_done"
    /\ UNCHANGED <<environ, FILTERED_IPS, q, ip_filter, i, status, results,
                   reportResult, published, submitted, finished, statusChecks,
                   fetches, raisedAt>>
    /\ UNCHANGED counterVars

(***************************************************************************)
(* Specifications.                                                         *)
(***************************************************************************)
MaxEnvLen == 4

Alphabet == {"a", ",", " "}

\* The FILTERED_IPS setting of the report specification: two addresses.
ReportEnviron == <<"a", ",", " ", "a", "a">>

\* Module load: FILTERED_IPS = os.environ['FILTERED_IPS'].split(',')
ModuleLoad(env) ==
    /\ environ = env
    /\ FILTERED_IPS = Split(env, ",")

ReportIdle ==
    /\ rpc = "idle"
    /\ q = 0
    /\ ip_filter = Unset
    /\ i = 0
    /\ status = None
    /\ results = <<>>
    /\ reportResult = Unset
    /\ published = <<>>
    /\ submitted = <<>>
    /\ finished = <<>>
    /\ statusChecks = 0
    /\ fetches = 0
    /\ raisedAt = Unset
    /\ footer = <<>>

\* The counts the record may hold before the first invocation: a fresh record,
\* and counts whose increments carry into a new decimal digit.
InitialCounts == {0, 8, 98}

CounterInit ==
    /\ table \in {{}} \cup {{[id |-> Key.id, count |-> n]} : n \in InitialCounts}
    /\ initialTable = table
    /\ event = [inv \in Invocations |-> EmptyDict]
    /\ pc = [inv \in Invocations |-> "idle"]
    /\ response = [inv \in Invocations |-> Unset]
    /\ result = [inv \in Invocations |-> Unset]
    /\ storeCalls = [inv \in Invocations |-> 0]
    /\ overlapped = FALSE
    /\ storeRaised = {}

CounterIdle ==
    /\ table = {}
    /\ initialTable = table
    /\ event = [inv \in Invocations |-> EmptyDict]
    /\ pc = [inv \in Invocations |-> "idle"]
    /\ response = [inv \in Invocations |-> Unset]
    /\ result = [inv \in Invocations |-> Unset]
    /\ storeCalls = [inv \in Invocations |-> 0]
    /\ overlapped = FALSE
    /\ storeRaised = {}

\* The Counter Service under concurrent invocations.
Init ==
    /\ CounterInit
    /\ ModuleLoad(ReportEnviron)
    /\ ReportIdle

Next ==
    \E inv \in Invocations :
        \/ Invoke(inv)
        \/ Preflight(inv)
        \/ UpdateItem(inv)
        \/ UpdateItemRaises(inv)
        \/ Return(inv)

Spec == Init /\ [][Next]_vars

\* One invocation of the Report Generator.
ReportInit ==
    /\ CounterIdle
    /\ ModuleLoad(ReportEnviron)
    /\ ReportIdle

ReportNext ==
    \/ ReportInvoke
    \/ StartQueryExecution
    \/ StartQueryExecutionRaises
    \/ GetQueryExecution
    \/ GetQueryExecutionRaises
    \/ GetQueryResults
    \/ GetQueryResultsRaises
    \/ ReturnEmpty
    \/ Publish
    \/ PublishRaises
    \/ ReportReturn

ReportSpec == ReportInit /\ [][ReportNext]_vars

\* The denylist functions over every FILTERED_IPS setting up to MaxEnvLen characters.
DenylistInit ==
    /\ CounterIdle
    /\ \E env \in SeqsUpTo(Alphabet, MaxEnvLen) : ModuleLoad(env)
    /\ ReportIdle

DenylistNext ==
    \/ BuildIpFilter
    \/ FormatFooter

DenylistSpec == DenylistInit /\ [][DenylistNext]_vars

(***************************************************************************)
(* Properties of the Counter Service (checked under Spec).                 *)
(***************************************************************************)
\* The method the host put in the event, read field by field.
MethodIsOptions(ev) ==
    /\ "requestContext" \in DOMAIN ev
    /\ "http" \in DOMAIN ev.requestContext
    /\ "method" \in DOMAIN ev.requestContext.http
    /\ ev.requestContext.http.method = "OPTIONS"

\* The count the table holds for visitor-count (0 when there is no record).
StoredCount(tbl) == IF tbl = {} THEN 0 ELSE (CHOOSE it \in tbl : TRUE).count

Responded == {inv \in Invocations : pc[inv] = "done"}

Incremented == {inv \in Responded : ~MethodIsOptions(event[inv])}

AllCompleted == \A inv \in Invocations : pc[inv] \in {"idle", "done", "raised"}

\* The number a string of decimal digits denotes; -1 if it is no such string.
DigitValue(c) ==
    CASE c = "0" -> 0 [] c = "1" -> 1 [] c = "2" -> 2 [] c = "3" -> 3 [] c = "4" -> 4
      [] c = "5" -> 5 [] c = "6" -> 6 [] c = "7" -> 7 [] c = "8" -> 8 [] c = "9" -> 9
      [] OTHER -> -1

RECURSIVE DecimalValue(_)
DecimalValue(digits) ==
    IF Len(digits) = 0 \/ DigitValue(digits[Len(digits)]) < 0 THEN -1
    ELSE IF Len(digits) = 1 THEN DigitValue(digits[1])
    ELSE LET front == DecimalValue(SubSeq(digits, 1, Len(digits) - 1))
         IN IF front < 0 THEN -1 ELSE 10 * front + DigitValue(digits[Len(digits)])

\* The v of a body {"count": v}; -1 if the body is not of that form.
BodyCount(body) ==
    IF /\ Len(body) >= 6
       /\ SubSeq(body, 1, 4) = <<"{", "\"count\"", ":", " ">>
       /\ body[Len(body)] = "}"
       /\ (Len(body) > 6 => body[5] # "0")
    THEN DecimalValue(SubSeq(body, 5, Len(body) - 1))
    ELSE -1

CorsHeaders ==
    [AllowOrigin |-> "*", AllowHeaders |-> "Content-Type",
     AllowMethods |-> "POST, OPTIONS"]

\* C1: once every invocation that was started has completed, the stored count
\* is the count before plus the number of non-OPTIONS invocations that
\* returned, for every interleaving of their steps; the record then exists.
C1_NoLostIncrement ==
    AllCompleted =>
        /\ StoredCount(table) = StoredCount(initialTable) + Cardinality(Incremented)
        /\ (Incremented # {} => table # {})

C1_Witness ==
    /\ overlapped
    /\ initialTable = {}
    /\ Incremented = Invocations
    /\ StoredCount(table) = NumInvocations

\* C2: a non-OPTIONS invocation whose store call returned answers status 200
\* with body {"count": v}, v being the stored count right after its own
\* increment; no two invocations answer the same count; and in a run without
\* overlap from no record, the k-th invocation to answer answers k.
C2_ReturnsOwnCount ==
    /\ [](\A inv \in Incremented :
             /\ result[inv].statusCode = 200
             /\ result[inv].headers = CorsHeaders
             /\ BodyCount(result[inv].body) = response[inv].Attributes.count)
    /\ [][\A inv \in Invocations :
             (pc[inv] = "entry" /\ pc'[inv] = "updated") =>
                 /\ StoredCount(table') = StoredCount(table) + 1
                 /\ response'[inv].Attributes.count = StoredCount(table')]_vars
    /\ [](\A a, b \in Incremented :
             a # b => BodyCount(result[a].body) # BodyCount(result[b].body))
    /\ [][\A inv \in Invocations :
             (/\ pc[inv] = "updated"
              /\ pc'[inv] = "done"
              /\ ~overlapped
              /\ initialTable = {}) =>
                 BodyCount(result'[inv].body) = Cardinality(Incremented) + 1]_vars

C2_Witness ==
    /\ ~overlapped
    /\ initialTable = {}
    /\ Incremented = Invocations
    /\ \E inv \in Invocations :
          /\ BodyCount(result[inv].body) = 3
          /\ "requestContext" \notin DOMAIN event[inv]

\* C3: an OPTIONS invocation answers status 200 with an empty body and the
\* cross-origin headers, issues no store call, and its step leaves the table
\* as it is, whatever the other invocations do.
C3_PreflightNoSideEffect ==
    /\ [](\A inv \in Invocations :
             (pc[inv] # "idle" /\ MethodIsOptions(event[inv])) =>
                 /\ storeCalls[inv] = 0
                 /\ pc[inv] \in {"entry", "done"}
                 /\ pc[inv] = "done" =>
                       result[inv] = [statusCode |-> 200, headers |-> CorsHeaders,
                                      body |-> <<>>])
    /\ [][\A inv \in Invocations :
             (MethodIsOptions(event[inv]) /\ pc[inv] = "entry" /\ pc'[inv] # "entry") =>
                 /\ table' = table
                 /\ storeCalls' = storeCalls]_vars
    /\ []((\A inv \in Invocations : pc[inv] = "idle" \/ MethodIsOptions(event[inv]))
             => table = initialTable)

C3_Witness ==
    /\ initialTable = {}
    /\ table = {}
    /\ \E a, b \in Invocations :
          /\ a # b
          /\ MethodIsOptions(event[a]) /\ pc[a] = "done"
          /\ MethodIsOptions(event[b]) /\ pc[b] = "done"
    /\ overlapped

\* C8: when update_item raises, the invocation returns nothing, has issued
\* exactly one store call and issues no other, and the raising call leaves the
\* table as it was.
C8_StoreFaultPropagates ==
    /\ [](\A inv \in Invocations :
             /\ inv \in storeRaised <=> pc[inv] = "raised"
             /\ pc[inv] = "raised" => result[inv] = Unset /\ storeCalls[inv] = 1)
    /\ [][\A inv \in Invocations :
             (pc[inv] # "raised" /\ pc'[inv] = "raised") => table' = table]_vars
    /\ [][\A inv \in Invocations :
             pc[inv] = "raised" =>
                 /\ pc'[inv] = "raised"
                 /\ storeCalls'[inv] = storeCalls[inv]
                 /\ result'[inv] = result[inv]]_vars
    /\ []((\A inv \in Invocations : pc[inv] \in {"idle", "raised"})
             => table = initialTable)

C8_Witness ==
    /\ AllCompleted
    /\ \E a, b \in Invocations :
          /\ pc[a] = "raised" /\ storeCalls[a] = 1 /\ result[a] = Unset
          /\ pc[b] = "done" /\ b \in Incremented
    /\ StoredCount(table) = StoredCount(initialTable) + Cardinality(Incremented)
    /\ overlapped

(***************************************************************************)
(* Properties of the Report Generator (checked under ReportSpec).          *)
(***************************************************************************)
TerminalStates == {"SUCCEEDED", "FAILED", "CANCELLED"}

QueryServiceCalls == {"start_query_execution", "get_query_execution", "get_query_results"}

\* The handler is inside execute_query call number q.
InExecuteQuery == rpc \in {"poll", "after_loop"}

\* C4: one execution gets at most 30 status checks; the loop is left after the
\* 30th at the latest; and when the loop is left with no terminal state seen,
\* all 30 checks were issued and execute_query returns an empty result set
\* with no result fetch.
C4_PollCeiling ==
    /\ [](statusChecks <= 30)
    /\ [](rpc = "poll" => statusChecks < 30 /\ statusChecks = i)
    /\ []((rpc = "after_loop" /\ status \notin TerminalStates) => statusChecks = 30)
    /\ [][(rpc = "after_loop" /\ status \notin TerminalStates) =>
             /\ results' = Append(results, <<>>)
             /\ finished' = Append(finished, [status |-> status, fetches |-> 0])
             /\ rpc' \in {"submit", "publish"}]_vars

C4_Witness ==
    /\ rpc = "after_loop"
    /\ statusChecks = 30
    /\ status = "QUEUED"
    /\ q = 3

\* C10: once a status check has seen a terminal state no other check is
\* issued for that execution; the results are fetched exactly once if the last
\* state seen is SUCCEEDED, and the fetched rows are returned; in every other
\* case nothing is fetched and the empty result set is returned.
C10_StopAtTerminal ==
    /\ [](rpc = "poll" => status \notin TerminalStates)
    /\ [][(InExecuteQuery /\ status \in TerminalStates) =>
             statusChecks' <= statusChecks /\ rpc' # "poll"]_vars
    /\ [](fetches <= 1 /\ (fetches = 1 => rpc = "raised"))
    /\ [](\A k \in DOMAIN finished :
             /\ finished[k].fetches = (IF finished[k].status = "SUCCEEDED" THEN 1 ELSE 0)
             /\ k \in DOMAIN results =>
                   IF finished[k].status = "SUCCEEDED"
                   THEN results[k] \in ResultSets(k)
                   ELSE results[k] = <<>>)
    /\ [][(rpc = "after_loop" /\ status = "SUCCEEDED") =>
             \/ /\ rpc' \in {"submit", "publish"}
                /\ Len(results') = Len(results) + 1
                /\ results'[Len(results')] # <<>>
                /\ finished' = Append(finished, [status |-> status, fetches |-> 1])
             \/ rpc' = "raised" /\ fetches' = 1]_vars
    /\ [][(rpc = "after_loop" /\ status # "SUCCEEDED") =>
             /\ results' = Append(results, <<>>)
             /\ finished' = Append(finished, [status |-> status, fetches |-> 0])]_vars

C10_Witness ==
    /\ rpc = "submit"
    /\ Len(finished) = 3
    /\ finished[1].status = "SUCCEEDED" /\ finished[1].fetches = 1
    /\ finished[2].status = "CANCELLED" /\ finished[2].fetches = 0
    /\ finished[3].status = "FAILED" /\ results[3] = <<>>
    /\ Len(results[1]) = 2

\* s occurs in t as a run of consecutive tokens.
IsInfix(s, t) ==
    \E k \in 0 .. (Len(t) - Len(s)) : SubSeq(t, k + 1, k + Len(s)) = s

NoDataSentence ==
    <<"No traffic data available.", "No traffic yesterday.", "No page data.",
      "No geographic data.", "No visitor data.">>

\* The text of section k: what the formatter of section k makes of rows.
Rendered(k, rows) ==
    CASE k = 1 -> format_overview(rows)
      [] k = 2 -> format_yesterday(rows)
      [] k = 3 -> format_top_pages(rows)
      [] k = 4 -> format_geo_distribution(rows)
      [] k = 5 -> format_top_visitors(rows)

\* Section k of a report, from its title to the start of what follows it.
SectionText(k, body) ==
    (IF k = 2 THEN <<SectionTitles[2], "yesterday", ")">> ELSE <<SectionTitles[k]>>)
    \o <<"\n", "==================================================", "\n">> \o body \o <<"\n">>
    \o (IF k < 5 THEN <<"\n", "==================================================">> ELSE <<"\nFiltered IPs: ">>)

\* C5: a query that ends FAILED, CANCELLED or at the ceiling contributes the
\* empty result set and the handler goes on to the next query or to the
\* report; only a raising service call ends an invocation early; and in the
\* published report the section of such a query is its "no data" sentence
\* while every other section is rendered from the rows of its own query.
C5_FailedQueryMasked ==
    /\ [][(rpc = "after_loop" /\ status # "SUCCEEDED") =>
             /\ results' = Append(results, <<>>)
             /\ IF q < 5 THEN rpc' = "submit" /\ q' = q + 1 ELSE rpc' = "publish"]_vars
    /\ [](rpc = "raised" =>
             raisedAt.call \in QueryServiceCalls \cup {"publish"})
    /\ [](rpc = "publish" => Len(results) = 5 /\ Len(finished) = 5)
    /\ [](rpc = "published" =>
             /\ Len(published) = 1
             /\ \A k \in 1 .. 5 :
                   IF finished[k].status # "SUCCEEDED"
                   THEN IsInfix(SectionText(k, <<NoDataSentence[k]>>),
                                published[1].Message)
                   ELSE IsInfix(SectionText(k, Rendered(k, results[k])),
                                published[1].Message))

C5_Witness ==
    /\ rpc = "published"
    /\ finished[1].status = "SUCCEEDED" /\ Len(results[1]) = 2
    /\ finished[2].status = "SUCCEEDED" /\ Len(results[2]) = 2
    /\ finished[3].status = "SUCCEEDED" /\ Len(results[3]) = 2
    /\ finished[4].status = "SUCCEEDED" /\ Len(results[4]) = 2
    /\ finished[5].status = "RUNNING"
    /\ IsInfix(<<"TOP VISITORS", "\n", "==================================================",
                 "\n", "No visitor data.">>,
               published[1].Message)

\* C6: when a query service call raises, the invocation ends there: the
\* queries accepted are those before the raising call, nothing is published
\* and nothing is returned; when publish raises nothing is returned; and after
\* a raise the invocation takes no other step.
C6_RaiseAborts ==
    /\ []((rpc = "raised" /\ raisedAt.call \in QueryServiceCalls) =>
             /\ published = <<>>
             /\ reportResult = Unset
             /\ Len(submitted) =
                   (IF raisedAt.call = "start_query_execution"
                    THEN raisedAt.query - 1 ELSE raisedAt.query))
    /\ []((rpc = "raised" /\ raisedAt.call = "publish") =>
             reportResult = Unset /\ published = <<>>)
    /\ [](raisedAt # Unset => rpc = "raised")
    /\ [][rpc = "raised" => UNCHANGED reportVars]_vars

C6_Witness ==
    /\ rpc = "raised"
    /\ raisedAt = [query |-> 3, call |-> "get_query_results"]
    /\ Len(submitted) = 3
    /\ published = <<>>

\* A step of the handler in which the service call, if there is one, returns.
StepWithoutRaise ==
    \/ ReportInvoke
    \/ StartQueryExecution
    \/ GetQueryExecution
    \/ GetQueryResults
    \/ ReturnEmpty
    \/ Publish
    \/ ReportReturn

\* C7: at most one notification is published; it is published only when all
\* five queries, submitted in the fixed order and each finished before the
\* next is submitted, have finished; the status-200 acknowledgment is
\* returned only after the publish; an invocation that returns has published
\* exactly one notification; and an invocation stops short of returning only
\* when a service call raises.
C7_PublishOnceAfterQueries ==
    /\ Len(published) <= 1
    /\ Len(submitted) <= 5
    /\ \A k \in DOMAIN submitted :
          submitted[k].QueryString.select =
             <<"overview", "yesterday", "top_pages", "geo_distribution",
               "top_visitors">>[k]
    /\ Len(finished) <= Len(submitted)
    /\ Len(submitted) <= Len(finished) + 1
    /\ (InExecuteQuery => Len(submitted) = Len(finished) + 1)
    /\ (rpc = "submit" => Len(submitted) = Len(finished))
    /\ \A k \in DOMAIN finished :
          finished[k].status \in TerminalStates \cup {"QUEUED", "RUNNING"}
    /\ (published # <<>> => Len(finished) = 5 /\ Len(submitted) = 5)
    /\ (reportResult # Unset =>
          /\ Len(published) = 1
          /\ reportResult.statusCode = 200
          /\ rpc = "done")
    /\ (rpc = "done" => Len(published) = 1 /\ reportResult # Unset)
    /\ (rpc \in {"published", "done"} <=> Len(published) = 1)
    /\ (rpc \notin {"done", "raised"} => ENABLED StepWithoutRaise)

C7_Witness ==
    /\ rpc = "done"
    /\ Len(published) = 1
    /\ reportResult.statusCode = 200
    /\ \A k \in 1 .. 5 : finished[k].status = "SUCCEEDED"

(***************************************************************************)
(* Property of the denylist (checked under DenylistSpec).                  *)
(***************************************************************************)
\* The addresses a FILTERED_IPS setting names: its comma-separated entries
\* that are not blank.
Addresses(env) ==
    LET parts == Split(env, ",")
    IN {k \in 1 .. Len(parts) : \E c \in 1 .. Len(parts[k]) : parts[k][c] # " "}

\* C9: the number in the footer is the number of denylisted addresses, and a
\* setting that names no address gives a clause that quotes no address.
C9_FooterCountsAddresses ==
    rpc = "footer_done" =>
        /\ footer = <<"\nFiltered IPs: ">> \o Str(Cardinality(Addresses(environ)))
                      \o <<" IP(s) excluded from stats">>
        /\ (Addresses(environ) = {} => \A k \in 1 .. Len(ip_filter) : ip_filter[k] # "a")

=============================================================================
